---- MODULE Spec2Model ----
(***************************************************************************)
(* Model of libmbbootimg's Android/Bump format writer                      *)
(* (src/libmbbootimg/src/format/android_writer.cpp) and Loki format reader *)
(* (src/libmbbootimg/src/format/loki_reader.cpp).                          *)
(*                                                                         *)
(* Byte strings (the stream's contents, the SHA-1 input) are sequences of  *)
(* extents [k, v, o, n]: n bytes of kind k.  k = "fill" is n copies of the *)
(* byte v; k = "magic" / "hdr" is the n bytes starting at offset o of the  *)
(* trailer magic / serialized header v.  Sequences are kept normalised     *)
(* (adjacent mergeable extents merged), so two byte strings are equal iff  *)
(* their extent sequences are equal.                                       *)
(***************************************************************************)
EXTENDS Integers, Sequences, FiniteSets, TLC

VARIABLES
    is_bump,    \* AndroidFormatWriter::_is_bump
    hdr,        \* AndroidFormatWriter::_hdr
    sha_ctx,    \* AndroidFormatWriter::_sha_ctx
    file_size,  \* AndroidFormatWriter::_file_size (optional)
    seg,        \* AndroidFormatWriter::_seg (the segment engine)
    file,       \* the output File: contents and position
    wstate,     \* the Writer facade's state
    ret,        \* what the last writer operation was and returned
    hist,       \* history of the write: payload written, header writes, closes
    junk,       \* what the process's indeterminate memory holds
    img,        \* the image a reader is opened on
    rd,         \* LokiFormatReader: _loki_offset, _header_offset, _loki_hdr, _hdr
    rseg,       \* LokiFormatReader::_seg: the installed segment list, if any
    reader,     \* the Reader: its error, whether it is fatal, its state
    out_header, \* the caller's Header, which read_header fills
    rret        \* what the last reader operation was and returned

wvars == <<is_bump, hdr, sha_ctx, file_size, seg, file, wstate, ret, hist, junk>>
rvars == <<img, rd, rseg, reader, out_header, rret>>
vars == <<wvars, rvars>>

----------------------------------------------------------------------------
(* Optionals: {} is "unset", {v} is "set to v". *)
None == {}
Some(v) == {v}
IsSet(o) == o # {}
Val(o) == CHOOSE v \in o : TRUE

Min(a, b) == IF a < b THEN a ELSE b

(* Integers of 32 and 64 bits, which the reader computes with, as pairs:   *)
(* Wide(h, l) is h * 2^16 + l with 0 <= l < 2^16.  Two are equal iff their *)
(* pairs are.                                                              *)
Wide(h, l) == [h |-> h, l |-> l]
Num(x) == Wide(x \div 65536, x % 65536)
Plus(a, b) == Wide(a.h + b.h + ((a.l + b.l) \div 65536), (a.l + b.l) % 65536)
Minus(a, b) == Wide(a.h - b.h + ((a.l - b.l) \div 65536), (a.l - b.l) % 65536)
Below(a, b) == a.h < b.h \/ (a.h = b.h /\ a.l < b.l)
AtMost(a, b) == a = b \/ Below(a, b)
(* The value a has in a uint32_t. *)
U32(a) == Wide(a.h % 65536, a.l)
(* a mod m, for 0 < m <= 2^15. *)
Rem(a, m) == ((a.h % m) * (65536 % m) + a.l) % m

----------------------------------------------------------------------------
(* Byte strings as normalised extent sequences. *)

Fill(b, n) == IF n = 0 THEN <<>> ELSE << [k |-> "fill", v |-> b, o |-> 0, n |-> n] >>

Mergeable(a, b) ==
    /\ a.k = b.k
    /\ a.v = b.v
    /\ \/ a.k = "fill"
       \/ b.o = a.o + a.n

RECURSIVE Size(_)
Size(s) == IF s = <<>> THEN 0 ELSE Head(s).n + Size(Tail(s))

Cat(s, t) ==
    IF s = <<>> THEN t
    ELSE IF t = <<>> THEN s
    ELSE LET a == s[Len(s)]
             b == t[1]
         IN IF Mergeable(a, b)
            THEN SubSeq(s, 1, Len(s) - 1)
                 \o << [a EXCEPT !.n = a.n + b.n] >>
                 \o Tail(t)
            ELSE s \o t

(* The first n bytes of s (all of s when it is shorter). *)
RECURSIVE Take(_, _)
Take(s, n) ==
    IF n <= 0 \/ s = <<>> THEN <<>>
    ELSE LET a == Head(s)
         IN IF a.n <= n
            THEN <<a>> \o Take(Tail(s), n - a.n)
            ELSE << [a EXCEPT !.n = n] >>

(* s without its first n bytes. *)
RECURSIVE Drop(_, _)
Drop(s, n) ==
    IF s = <<>> THEN <<>>
    ELSE IF n <= 0 THEN s
    ELSE LET a == Head(s)
         IN IF a.n <= n
            THEN Drop(Tail(s), n - a.n)
            ELSE << [a EXCEPT !.n = a.n - n,
                              !.o = IF a.k = "fill" THEN 0 ELSE a.o + n] >>
                 \o Tail(s)

(* The stream's contents after writing the bytes w at offset pos: a write  *)
(* beyond the end leaves a hole of zero bytes.                             *)
WriteAt(data, pos, w) ==
    LET padded == IF Size(data) < pos
                  THEN Cat(data, Fill(0, pos - Size(data)))
                  ELSE data
    IN Cat(Cat(Take(padded, pos), w), Drop(padded, pos + Size(w)))

----------------------------------------------------------------------------
(* Constants of the Android format. *)

BOOT_NAME_SIZE == 16                 \* sizeof(_hdr.name)
BOOT_ARGS_SIZE == 512                \* sizeof(_hdr.cmdline)
ANDROID_HEADER_SIZE == 1632          \* sizeof(AndroidHeader)
SAMSUNG_SEANDROID_MAGIC_SIZE == 16
BUMP_MAGIC_SIZE == 16

ENTRY_TYPE_KERNEL == "kernel"
ENTRY_TYPE_RAMDISK == "ramdisk"
ENTRY_TYPE_SECONDBOOT == "secondboot"
ENTRY_TYPE_DEVICE_TREE == "device_tree"
EntryTypes == {ENTRY_TYPE_KERNEL, ENTRY_TYPE_RAMDISK,
               ENTRY_TYPE_SECONDBOOT, ENTRY_TYPE_DEVICE_TREE}

(* The page sizes write_header's switch accepts. *)
ValidPageSizes == {2048, 4096, 8192, 16384, 32768, 65536, 131072}

----------------------------------------------------------------------------
(* Bounds of the writer model. *)

MaxData == 2      \* write_data calls per image
MaxClose == 2     \* close attempts per image once every segment is finished

(* The buffers a caller passes to write_data. *)
Bufs == {Fill(170, 1024), Fill(187, 256)}

(* What indeterminate memory may hold: the uint32_t an unset optional's    *)
(* storage yields, and the entry type read through entries().end().        *)
Junks == [size : {0, 7}, type : {"invalid", "device_tree"}]

(* The page sizes the caller of a whole write sets. *)
RunPageSizes == {2048}

(* The headers a caller passes to write_header: during a whole write, and  *)
(* when only write_header is exercised.                                    *)
RunHeaders ==
    [page_size : {Some(p) : p \in RunPageSizes} \cup {None},
     board_name : {None, Some(BOOT_NAME_SIZE)},
     kernel_cmdline : {None}]

AllHeaders ==
    [page_size : {None} \cup {Some(p) : p \in ValidPageSizes \cup
                                  {0, 1, 1024, 2047, 2049, 4095, 262144}},
     board_name : {None} \cup {Some(n) : n \in {0, BOOT_NAME_SIZE - 1,
                                                BOOT_NAME_SIZE, BOOT_NAME_SIZE + 1}},
     kernel_cmdline : {None} \cup {Some(n) : n \in {BOOT_ARGS_SIZE - 1,
                                                    BOOT_ARGS_SIZE}}]

(* How a stream call inside an operation ends: it succeeds, or it fails    *)
(* and File::is_fatal() then answers FALSE or TRUE.                        *)
Faults == {"ok", "fail", "fatal"}
FailCode(f) == IF f = "fatal" THEN "FATAL" ELSE "FAILED"

----------------------------------------------------------------------------
(* SHA-1, as an injective function of its input: the digest is the message *)
(* fed, with the number of SHA1_Final calls the context has seen (a        *)
(* context finalized again pads and compresses again: another digest).     *)

ZeroId == [msg |-> <<>>, rounds |-> 0]

SHA1_Init == [msg |-> <<>>, finals |-> 0]
SHA1_Update(ctx, bytes) == [ctx EXCEPT !.msg = Cat(@, bytes)]
SHA1_Final(ctx) == [digest |-> [msg |-> ctx.msg, rounds |-> ctx.finals + 1],
                    ctx |-> [ctx EXCEPT !.finals = @ + 1]]
SHA1(bytes) == [msg |-> bytes, rounds |-> 1]

(* mb_htole32: the four bytes of a 32-bit value, least significant first. *)
LE32(x) ==
    Cat(Cat(Fill(x % 256, 1), Fill((x \div 256) % 256, 1)),
        Cat(Fill((x \div 65536) % 256, 1), Fill((x \div 16777216) % 256, 1)))

----------------------------------------------------------------------------
(* The segment engine (SegmentWriter), as the specification describes it.  *)
(* seg = [entries, cur, open, count]: the installed slots, the cursor (an  *)
(* index into entries; Len(entries) + 1 is entries().end()), whether an    *)
(* entry is being written, and the per-segment byte counter.               *)

SegInit == [entries |-> <<>>, cur |-> 1, open |-> FALSE, count |-> 0]

SegEnd(sg) == Len(sg.entries) + 1

(* (page_size - (counter mod page_size)) mod page_size *)
AlignPad(n, page) == (page - (n % page)) % page

(* set_entries: rejects an empty list and duplicate types; resets the cursor. *)
SegSetEntriesOk(entries) ==
    /\ entries # <<>>
    /\ \A i, j \in 1..Len(entries) : i # j => entries[i].type # entries[j].type

SegSetEntries(entries) ==
    [entries |-> entries, cur |-> 1, open |-> FALSE, count |-> 0]

(* write_entry: the entry's type must be that of the next expected slot;   *)
(* records the stream's offset as the slot's offset, resets the counter.   *)
SegWriteEntryOk(sg, type) ==
    /\ sg.cur < SegEnd(sg)
    /\ ~sg.open
    /\ sg.entries[sg.cur].type = type

SegWriteEntry(sg, pos) ==
    [sg EXCEPT !.entries[sg.cur].offset = pos, !.open = TRUE, !.count = 0]

(* write_data: the byte counts a write of len bytes may report written. *)
SegWrittenCounts(len) == {len, len \div 2}

SegWriteData(sg, n) == [sg EXCEPT !.count = @ + n]

(* finish_entry: stores the counter as the slot's size, advances the cursor. *)
SegFinishEntry(sg) ==
    [sg EXCEPT !.entries[sg.cur].size = Some(sg.count),
               !.cur = @ + 1,
               !.open = FALSE]

----------------------------------------------------------------------------
(* The reader's side: an image, and a Loki reader that has done nothing. *)

HeaderUnset == [set |-> FALSE]

RdInit == [loki_offset |-> None, header_offset |-> None,
           loki_hdr |-> [orig_kernel_size |-> Num(0), orig_ramdisk_size |-> Num(0),
                         ramdisk_addr |-> Num(0)],
           hdr |-> [page_size |-> 0, kernel_addr |-> Num(0), ramdisk_addr |-> Num(0),
                    second_addr |-> Num(0), tags_addr |-> Num(0), dt_size |-> Num(0),
                    name_len |-> 0, cmdline_len |-> 0]]

ReaderInit(images) ==
    /\ img \in images
    /\ rd = RdInit
    /\ rseg = None
    /\ reader = [state |-> "New", error |-> "", fatal |-> FALSE]
    /\ out_header = HeaderUnset
    /\ rret = [op |-> "init"]

NoImage == [len |-> Num(0)]

ReaderIdle == ReaderInit({NoImage})

----------------------------------------------------------------------------
(* AndroidFormatWriter *)

HdrZero == [page_size |-> 0, kernel_size |-> 0, ramdisk_size |-> 0,
            second_size |-> 0, dt_size |-> 0, name_len |-> 0,
            cmdline_len |-> 0, id |-> ZeroId]

HistInit == [payload |-> [t \in EntryTypes |-> <<>>],
             hdr_writes |-> {},
             data_ops |-> 0,
             closes |-> 0,
             close_pos |-> None]

WriterConstructed(bumps, junks) ==
    /\ is_bump \in bumps
    /\ junk \in junks
    /\ hdr = HdrZero
    /\ sha_ctx = SHA1_Init
    /\ file_size = None
    /\ seg = SegInit
    /\ file = [data |-> <<>>, pos |-> 0]
    /\ wstate = "New"
    /\ ret = [op |-> "init", code |-> "OK", err |-> "", arg |-> <<>>]
    /\ hist = HistInit

(* A writer run: the reader side stays idle. *)
WriterInit(bumps, junks) ==
    /\ WriterConstructed(bumps, junks)
    /\ ReaderIdle

(* The first check of write_header that the header violates. *)
HeaderErrorOffByOne(header) ==
    IF ~IsSet(header.page_size) THEN "MissingPageSize"
    ELSE IF Val(header.page_size) \notin ValidPageSizes THEN "InvalidPageSize"
    ELSE IF IsSet(header.board_name)
            /\ Val(header.board_name) > BOOT_NAME_SIZE THEN "BoardNameTooLong"
    ELSE IF IsSet(header.kernel_cmdline)
            /\ Val(header.kernel_cmdline) >= BOOT_ARGS_SIZE THEN "KernelCmdlineTooLong"
    ELSE ""

HeaderError(header) ==
    IF ~IsSet(header.page_size) THEN "MissingPageSize"
    ELSE IF Val(header.page_size) \notin ValidPageSizes THEN "InvalidPageSize"
    ELSE IF IsSet(header.board_name)
            /\ Val(header.board_name) >= BOOT_NAME_SIZE THEN "BoardNameTooLong"
    ELSE IF IsSet(header.kernel_cmdline)
            /\ Val(header.kernel_cmdline) >= BOOT_ARGS_SIZE THEN "KernelCmdlineTooLong"
    ELSE ""

(* _hdr as write_header leaves it: zeroed, then filled up to the check     *)
(* that failed.                                                            *)
HeaderBuilt(header) ==
    LET e == HeaderError(header)
        h1 == IF e \in {"MissingPageSize", "InvalidPageSize"} THEN HdrZero
              ELSE [HdrZero EXCEPT !.page_size = Val(header.page_size)]
        h2 == IF e \in {"MissingPageSize", "InvalidPageSize", "BoardNameTooLong"}
                 \/ ~IsSet(header.board_name) THEN h1
              ELSE [h1 EXCEPT !.name_len = Min(Val(header.board_name), BOOT_NAME_SIZE - 1)]
    IN IF e # "" \/ ~IsSet(header.kernel_cmdline) THEN h2
       ELSE [h2 EXCEPT !.cmdline_len = Min(Val(header.kernel_cmdline), BOOT_ARGS_SIZE - 1)]

WriterEntriesUnaligned(page) ==
    << [type |-> ENTRY_TYPE_KERNEL, offset |-> 0, size |-> None, align |-> 1],
       [type |-> ENTRY_TYPE_RAMDISK, offset |-> 0, size |-> None, align |-> 1],
       [type |-> ENTRY_TYPE_SECONDBOOT, offset |-> 0, size |-> None, align |-> 1],
       [type |-> ENTRY_TYPE_DEVICE_TREE, offset |-> 0, size |-> None, align |-> 1] >>
WriterEntries(page) ==
    << [type |-> ENTRY_TYPE_KERNEL, offset |-> 0, size |-> None, align |-> page],
       [type |-> ENTRY_TYPE_RAMDISK, offset |-> 0, size |-> None, align |-> page],
       [type |-> ENTRY_TYPE_SECONDBOOT, offset |-> 0, size |-> None, align |-> page],
       [type |-> ENTRY_TYPE_DEVICE_TREE, offset |-> 0, size |-> None, align |-> page] >>

(* write_header(header); seek is how file.seek(page_size, SEEK_SET) ends. *)
WriteHeader(header, seek) ==
    /\ wstate = "New"
    /\ LET e == HeaderError(header)
           entries == WriterEntries(HeaderBuilt(header).page_size)
       IN /\ hdr' = HeaderBuilt(header)
          /\ IF e # ""
             THEN /\ ret' = [op |-> "write_header", code |-> "FAILED", err |-> e,
                             arg |-> header]
                  /\ UNCHANGED <<seg, file, wstate>>
             ELSE IF ~SegSetEntriesOk(entries)
             THEN /\ ret' = [op |-> "write_header", code |-> "FAILED",
                             err |-> "set_entries", arg |-> header]
                  /\ UNCHANGED <<seg, file, wstate>>
             ELSE /\ seg' = SegSetEntries(entries)
                  /\ IF seek # "ok"
                     THEN /\ ret' = [op |-> "write_header", code |-> FailCode(seek),
                                     err |-> "seek", arg |-> header]
                          /\ wstate' = IF seek = "fatal" THEN "Fatal" ELSE wstate
                          /\ UNCHANGED file
                     ELSE /\ ret' = [op |-> "write_header", code |-> "OK", err |-> "",
                                     arg |-> header]
                          /\ file' = [file EXCEPT !.pos = HeaderBuilt(header).page_size]
                          /\ wstate' = "HeaderWritten"
    /\ UNCHANGED <<is_bump, sha_ctx, file_size, hist, junk>>
    /\ UNCHANGED rvars

(* write_entry(entry): forwarded to the segment engine. *)
WriteEntry(type, seek) ==
    /\ wstate \in {"HeaderWritten", "EntryFinished"}
    /\ IF ~SegWriteEntryOk(seg, type)
       THEN /\ ret' = [op |-> "write_entry", code |-> "FAILED", err |-> "type",
                       arg |-> type]
            /\ UNCHANGED <<seg, wstate>>
       ELSE IF seek # "ok"
       THEN /\ ret' = [op |-> "write_entry", code |-> FailCode(seek), err |-> "seek",
                       arg |-> type]
            /\ wstate' = IF seek = "fatal" THEN "Fatal" ELSE wstate
            /\ UNCHANGED seg
       ELSE /\ ret' = [op |-> "write_entry", code |-> "OK", err |-> "", arg |-> type]
            /\ seg' = SegWriteEntry(seg, file.pos)
            /\ wstate' = "EntryWritten"
    /\ UNCHANGED <<is_bump, hdr, sha_ctx, file_size, file, hist, junk>>
    /\ UNCHANGED rvars

(* The bytes write_data feeds to the SHA-1 after the engine wrote n of buf. *)
HashedOfBuf(buf, n) == buf

(* write_data(buf): the engine writes (n bytes, or fails), then the buffer *)
(* is hashed.                                                              *)
WriteData(buf, write, n) ==
    /\ wstate \in {"EntryWritten", "DataWritten"}
    /\ hist.data_ops < MaxData
    /\ n \in SegWrittenCounts(Size(buf))
    /\ IF write # "ok"
       THEN /\ ret' = [op |-> "write_data", code |-> FailCode(write), err |-> "write",
                       arg |-> <<buf, 0>>]
            /\ wstate' = IF write = "fatal" THEN "Fatal" ELSE wstate
            /\ hist' = [hist EXCEPT !.data_ops = @ + 1]
            /\ UNCHANGED <<seg, file, sha_ctx>>
       ELSE /\ ret' = [op |-> "write_data", code |-> "OK", err |-> "",
                       arg |-> <<buf, n>>]
            /\ seg' = SegWriteData(seg, n)
            /\ file' = [data |-> WriteAt(file.data, file.pos, Take(buf, n)),
                        pos |-> file.pos + n]
            /\ sha_ctx' = SHA1_Update(sha_ctx, HashedOfBuf(buf, n))
            /\ hist' = [hist EXCEPT
                          !.data_ops = @ + 1,
                          !.payload[seg.entries[seg.cur].type] = Cat(@, Take(buf, n))]
            /\ wstate' = "DataWritten"
    /\ UNCHANGED <<is_bump, hdr, file_size, junk>>
    /\ UNCHANGED rvars

(* What finish_entry reads through swentry = _seg.entry() after the        *)
(* engine's finish_entry: the type and *size of the slot under the cursor. *)
(* The size of a slot that was never finished is an unset optional, and a  *)
(* cursor at entries().end() designates no slot: both reads are            *)
(* indeterminate.                                                          *)
SwEntryReads(sg) ==
    IF sg.cur < SegEnd(sg)
    THEN LET e == sg.entries[sg.cur]
         IN {[type |-> e.type, size |-> sz] :
                sz \in IF IsSet(e.size) THEN e.size ELSE {junk.size}}
    ELSE {[type |-> junk.type, size |-> junk.size]}

(* Whether finish_entry feeds LE32(size) to the SHA-1. *)
HashesSize(sw) == sw.type # ENTRY_TYPE_DEVICE_TREE \/ sw.size > 0

(* The switch of finish_entry: the header's size field of the entry's type. *)
HdrWithSize(h, sw) ==
    CASE sw.type = ENTRY_TYPE_KERNEL -> [h EXCEPT !.kernel_size = sw.size]
      [] sw.type = ENTRY_TYPE_RAMDISK -> [h EXCEPT !.ramdisk_size = sw.size]
      [] sw.type = ENTRY_TYPE_SECONDBOOT -> [h EXCEPT !.second_size = sw.size]
      [] sw.type = ENTRY_TYPE_DEVICE_TREE -> [h EXCEPT !.dt_size = sw.size]
      [] OTHER -> h

(* finish_entry(); write is how the engine's padding write ends. *)
FinishEntry(write) ==
    /\ wstate \in {"EntryWritten", "DataWritten"}
    /\ LET type == seg.entries[seg.cur].type
           arg == [type |-> type, count |-> seg.count, hdr |-> hdr,
                   start |-> seg.entries[seg.cur].offset]
       IN IF write # "ok"
          THEN /\ ret' = [op |-> "finish_entry", code |-> FailCode(write),
                          err |-> "write", arg |-> arg]
               /\ wstate' = IF write = "fatal" THEN "Fatal" ELSE wstate
               /\ UNCHANGED <<seg, file, sha_ctx, hdr>>
          ELSE LET pad == AlignPad(seg.count, seg.entries[seg.cur].align)
               IN /\ seg' = SegFinishEntry(seg)
                  /\ file' = [data |-> WriteAt(file.data, file.pos, Fill(0, pad)),
                              pos |-> file.pos + pad]
                  /\ \E sw \in SwEntryReads(SegFinishEntry(seg)) :
                        /\ sha_ctx' = IF HashesSize(sw)
                                      THEN SHA1_Update(sha_ctx, LE32(sw.size))
                                      ELSE sha_ctx
                        /\ hdr' = HdrWithSize(hdr, sw)
                  /\ ret' = [op |-> "finish_entry", code |-> "OK", err |-> "",
                             arg |-> arg]
                  /\ wstate' = "EntryFinished"
    /\ UNCHANGED <<is_bump, file_size, hist, junk>>
    /\ UNCHANGED rvars

(* The trailer close appends. *)
TrailerMagic(bump) == IF bump THEN "BUMP" ELSE "SEANDROIDENFORCE"
TrailerSizeWithNul(bump) ==
    IF bump THEN BUMP_MAGIC_SIZE ELSE SAMSUNG_SEANDROID_MAGIC_SIZE + 1
TrailerSize(bump) == IF bump THEN BUMP_MAGIC_SIZE ELSE SAMSUNG_SEANDROID_MAGIC_SIZE
Magic(v, n) == IF n = 0 THEN <<>> ELSE << [k |-> "magic", v |-> v, o |-> 0, n |-> n] >>
HeaderBytes(h, n) == IF n = 0 THEN <<>> ELSE << [k |-> "hdr", v |-> h, o |-> 0, n |-> n] >>

(* The offset close writes the trailer at: the remembered _file_size, or   *)
(* the stream's current offset.                                            *)
CloseOffsetNotRemembered(fs, pos) == pos
CloseOffset(fs, pos) == IF IsSet(fs) THEN Val(fs) ELSE pos

(* swentry == _seg.entries().end() *)
AtEndAlways(sg) == TRUE
AtEnd(sg) == sg.cur = SegEnd(sg)

(* The steps of close at which a stream call may fail; "short" is a        *)
(* file_write_fully that reports fewer bytes than asked.                   *)
CloseFaults == {"none", "seek", "trailer", "trailer_short", "seek0",
                "header", "header_short"}

(* close(); the stream call of step `at` fails, fatally or not. *)
Close(at, fatal) ==
    /\ wstate \in {"HeaderWritten", "EntryWritten", "DataWritten", "EntryFinished"}
    /\ AtEnd(seg) => hist.closes < MaxClose
    /\ LET failed == IF fatal THEN "FATAL" ELSE "FAILED"
           off == CloseOffset(file_size, file.pos)
           atend == AtEnd(seg)
           tn == IF at = "trailer" THEN 0
                 ELSE IF at = "trailer_short" THEN TrailerSize(is_bump) \div 2
                 ELSE TrailerSize(is_bump)
           fin == SHA1_Final(sha_ctx)
           hfin == [hdr EXCEPT !.id = fin.digest]
           hn == IF at = "header" THEN 0
                 ELSE IF at = "header_short" THEN ANDROID_HEADER_SIZE \div 2
                 ELSE ANDROID_HEADER_SIZE
           data1 == WriteAt(file.data, off, Magic(TrailerMagic(is_bump), tn))
           data2 == WriteAt(data1, 0, HeaderBytes(hfin, hn))
           h0 == IF atend
                 THEN [hist EXCEPT !.closes = @ + 1,
                                   !.close_pos = IF IsSet(@) THEN @ ELSE Some(file.pos)]
                 ELSE hist
           Ret(code, err) == [op |-> "close", code |-> code, err |-> err,
                              arg |-> atend]
       IN IF at = "seek"
          THEN /\ ret' = Ret(failed, "seek")
               /\ hist' = h0
               /\ wstate' = IF fatal THEN "Fatal" ELSE wstate
               /\ UNCHANGED <<file_size, file, sha_ctx, hdr>>
          ELSE /\ file_size' = Some(off)
               /\ IF ~atend
                  THEN /\ ret' = Ret("OK", "")
                       /\ hist' = h0
                       /\ file' = [file EXCEPT !.pos = off]
                       /\ wstate' = "Closed"
                       /\ UNCHANGED <<sha_ctx, hdr>>
                  ELSE IF at \in {"trailer", "trailer_short"}
                  THEN /\ ret' = Ret(failed, "trailer")
                       /\ hist' = h0
                       /\ file' = [data |-> data1, pos |-> off + tn]
                       /\ wstate' = IF fatal THEN "Fatal" ELSE wstate
                       /\ UNCHANGED <<sha_ctx, hdr>>
                  ELSE /\ sha_ctx' = fin.ctx
                       /\ hdr' = hfin
                       /\ IF at = "seek0"
                          THEN /\ ret' = Ret(failed, "seek0")
                               /\ hist' = h0
                               /\ file' = [data |-> data1, pos |-> off + tn]
                               /\ wstate' = IF fatal THEN "Fatal" ELSE wstate
                          ELSE /\ file' = [data |-> data2, pos |-> hn]
                               /\ hist' = [h0 EXCEPT !.hdr_writes = @ \cup
                                            IF hn = 0 THEN {}
                                            ELSE {[id |-> hfin.id, n |-> hn,
                                                   finals |-> fin.ctx.finals]}]
                               /\ IF at \in {"header", "header_short"}
                                  THEN /\ ret' = Ret(failed, "header")
                                       /\ wstate' = IF fatal THEN "Fatal" ELSE wstate
                                  ELSE /\ ret' = Ret("OK", "")
                                       /\ wstate' = "Closed"
    /\ UNCHANGED <<is_bump, seg, junk>>
    /\ UNCHANGED rvars

----------------------------------------------------------------------------
(* A whole write: every payload, close failing only on its first seek. *)
Init == WriterInit(BOOLEAN, Junks)

Next ==
    \/ \E header \in RunHeaders, seek \in Faults : WriteHeader(header, seek)
    \/ \E type \in EntryTypes, seek \in Faults : WriteEntry(type, seek)
    \/ \E buf \in Bufs, write \in Faults :
          \E n \in SegWrittenCounts(Size(buf)) : WriteData(buf, write, n)
    \/ \E write \in Faults : FinishEntry(write)
    \/ \E at \in {"none", "seek"}, fatal \in BOOLEAN : Close(at, fatal)

Spec == Init /\ [][Next]_vars

(* Closing: every way close can fail and be retried, over writes whose     *)
(* write_data calls write their whole buffer.                              *)
CloseInit == WriterInit(BOOLEAN, {[size |-> 0, type |-> "invalid"]})

CloseNext ==
    \/ \E header \in RunHeaders, seek \in Faults : WriteHeader(header, seek)
    \/ \E type \in EntryTypes, seek \in Faults : WriteEntry(type, seek)
    \/ \E write \in Faults : WriteData(Fill(170, 1024), write, 1024)
    \/ \E write \in Faults : FinishEntry(write)
    \/ \E at \in CloseFaults, fatal \in BOOLEAN : Close(at, fatal)

CloseSpec == CloseInit /\ [][CloseNext]_vars

(* write_header alone, over every kind of header. *)
HeaderNext == \E header \in AllHeaders, seek \in Faults : WriteHeader(header, seek)

HeaderInit == WriterInit({FALSE}, {[size |-> 0, type |-> "invalid"]})

HeaderSpec == HeaderInit /\ [][HeaderNext]_vars

----------------------------------------------------------------------------
(* What the claims speak of. *)

(* A complete write: close returned OK with all four segments finished. *)
CompleteWrite ==
    /\ wstate = "Closed"
    /\ ret.op = "close"
    /\ ret.code = "OK"
    /\ ret.arg

PayloadSize(t) == Size(hist.payload[t])

RoundUp(n, page) == ((n + page - 1) \div page) * page

(* The offset at which the padding of the last segment ends. *)
EndOfSegments ==
    hdr.page_size
    + RoundUp(PayloadSize(ENTRY_TYPE_KERNEL), hdr.page_size)
    + RoundUp(PayloadSize(ENTRY_TYPE_RAMDISK), hdr.page_size)
    + RoundUp(PayloadSize(ENTRY_TYPE_SECONDBOOT), hdr.page_size)
    + RoundUp(PayloadSize(ENTRY_TYPE_DEVICE_TREE), hdr.page_size)

(* The header stored at offset 0 of the stream, if a whole one is there. *)
HasStoredHeader ==
    /\ file.data # <<>>
    /\ file.data[1].k = "hdr"
    /\ file.data[1].o = 0
    /\ file.data[1].n = ANDROID_HEADER_SIZE
StoredHeader == file.data[1].v

(* The input of the identity hash: each segment's bytes followed by the    *)
(* LE32 of its size, the size of an empty device tree left out.            *)
IdentityInput ==
    LET k == hist.payload[ENTRY_TYPE_KERNEL]
        r == hist.payload[ENTRY_TYPE_RAMDISK]
        sb == hist.payload[ENTRY_TYPE_SECONDBOOT]
        dt == hist.payload[ENTRY_TYPE_DEVICE_TREE]
    IN Cat(Cat(Cat(k, LE32(Size(k))), Cat(r, LE32(Size(r)))),
           Cat(Cat(sb, LE32(Size(sb))),
               Cat(dt, IF Size(dt) > 0 THEN LE32(Size(dt)) ELSE <<>>)))

(* C1: after a complete write the id of the header stored at offset 0 is   *)
(* the SHA-1 of kernel, LE32(kernel size), ramdisk, LE32(ramdisk size),    *)
(* secondboot, LE32(secondboot size), device tree and, iff the device tree *)
(* is not empty, LE32(device-tree size).                                   *)
C1_IdIsIdentityHash ==
    CompleteWrite =>
        /\ HasStoredHeader
        /\ StoredHeader.id = SHA1(IdentityInput)

(* C2: after a complete write onto an empty stream the file length is the  *)
(* header page, plus every segment rounded up to a page, plus the 16-byte  *)
(* trailer; 6160 for page_size 2048, a 0x400-byte kernel, a 0x100-byte     *)
(* ramdisk and no secondboot or device tree.                               *)
MinimalWrite ==
    /\ hdr.page_size = 2048
    /\ PayloadSize(ENTRY_TYPE_KERNEL) = 1024
    /\ PayloadSize(ENTRY_TYPE_RAMDISK) = 256
    /\ PayloadSize(ENTRY_TYPE_SECONDBOOT) = 0
    /\ PayloadSize(ENTRY_TYPE_DEVICE_TREE) = 0

C2_FileLength ==
    CompleteWrite =>
        /\ Size(file.data) = EndOfSegments + 16
        /\ MinimalWrite => Size(file.data) = 6160

C2_Witness == CompleteWrite /\ MinimalWrite

(* C3: when finish_entry returns OK for the segment of type T, the header  *)
(* size field of T is the number of payload bytes written to the segment   *)
(* and the size fields of the other types are as they were.                *)
SizeField(h, t) ==
    CASE t = ENTRY_TYPE_KERNEL -> h.kernel_size
      [] t = ENTRY_TYPE_RAMDISK -> h.ramdisk_size
      [] t = ENTRY_TYPE_SECONDBOOT -> h.second_size
      [] t = ENTRY_TYPE_DEVICE_TREE -> h.dt_size

C3_FinishEntrySetsSize ==
    (ret.op = "finish_entry" /\ ret.code = "OK") =>
        \A t \in EntryTypes :
            SizeField(hdr, t) = IF t = ret.arg.type
                                THEN PayloadSize(t)
                                ELSE SizeField(ret.arg.hdr, t)

(* C4: without stream errors write_header succeeds iff the page size is    *)
(* set and allowed, the board name at most 15 bytes and the command line   *)
(* at most 511 bytes; otherwise it fails with the first violated check     *)
(* (MissingPageSize, InvalidPageSize, BoardNameTooLong,                    *)
(* KernelCmdlineTooLong), installs no segment list and leaves the stream   *)
(* alone.                                                                  *)
C4_Expected(h) ==
    IF h.page_size = None THEN "MissingPageSize"
    ELSE IF ~(\E p \in {2048, 4096, 8192, 16384, 32768, 65536, 131072} :
                  h.page_size = {p}) THEN "InvalidPageSize"
    ELSE IF \E n \in h.board_name : n > 15 THEN "BoardNameTooLong"
    ELSE IF \E n \in h.kernel_cmdline : n > 511 THEN "KernelCmdlineTooLong"
    ELSE ""

C4_Result ==
    ret.op = "write_header" =>
        IF C4_Expected(ret.arg) = ""
        THEN ret.code = "OK" \/ ret.err = "seek"
        ELSE ret.code = "FAILED" /\ ret.err = C4_Expected(ret.arg)

C4_Frame ==
    (ret'.op = "write_header" /\ C4_Expected(ret'.arg) # "")
        => (seg' = seg /\ file' = file)

C4_WriteHeaderValidation == []C4_Result /\ [][C4_Frame]_vars

C4_Witness ==
    /\ ret.op = "write_header"
    /\ ret.err = "BoardNameTooLong"
    /\ ret.arg.board_name = {16}
    /\ ret.arg.page_size = {131072}

(* C5: once a close of a writer with all four segments finished returns    *)
(* OK, also after failed attempts, the file holds exactly one 16-byte      *)
(* trailer, at the offset where the last segment's padding ended when      *)
(* close was first attempted; the file ends with it; it is the Bump magic  *)
(* for Bump and SEANDROIDENFORCE otherwise.                                *)
Trailers ==
    {x \in {[off |-> Size(SubSeq(file.data, 1, i - 1)), ext |-> file.data[i]] :
                i \in 1..Len(file.data)} :
        x.ext.k = "magic"}

C5_OneTrailer ==
    CompleteWrite =>
        /\ Trailers = {[off |-> EndOfSegments,
                        ext |-> [k |-> "magic", o |-> 0, n |-> 16,
                                 v |-> IF is_bump THEN "BUMP"
                                       ELSE "SEANDROIDENFORCE"]]}
        /\ hist.close_pos = {EndOfSegments}
        /\ Size(file.data) = EndOfSegments + 16

C5_Witness == CompleteWrite /\ hist.closes > 1 /\ is_bump

(* C6: the SHA-1 context is finalized exactly once, and every header       *)
(* written at offset 0 is written after that finalization, carrying the    *)
(* digest of what was hashed.                                              *)
C6_FinalizedOnce ==
    /\ sha_ctx.finals <= 1
    /\ \A w \in hist.hdr_writes :
          /\ w.finals = 1
          /\ w.id = SHA1(sha_ctx.msg)

----------------------------------------------------------------------------
(* LokiFormatReader *)

LOKI_MAGIC_OFFSET == 1024
LOKI_MAGIC_SIZE == 4
LOKI_HEADER_SIZE == 80
BOOT_MAGIC_SIZE == 8
LOKI_MAX_HEADER_OFFSET == 32768
MAX_HEADER_OFFSET == 524288
LOKI_SHELLCODE_SIZE == 65
DEFAULT_KERNEL_OFFSET == 32768
DEFAULT_TAGS_OFFSET == 256
UINT32_MAX == Wide(65535, 65535)
(* 0x01ff8000: what the jflte default adds to the kernel address. *)
JflteRamdiskOffset == Wide(511, 32768)
(* 0x88f02000 and 0x8ef02000: is_lg_ramdisk_address. *)
LgRamdiskAddresses == { Wide(35056, 8192), Wide(36592, 8192) }
IsLgRamdiskAddress(addr) == addr \in LgRamdiskAddresses

(* An image is what the reader can observe of a file:                      *)
(*   len     the file's length;                                            *)
(*   loki    the 0x50 bytes at 0x400, decoded: whether they start with     *)
(*           "LOKI", and the little-endian fields after it;                *)
(*   amagic  the offset of the first "ANDROID!", if there is one;          *)
(*   ahdr    the Android header that starts there, decoded;                *)
(*   ksize   the little-endian word at page_size + 0x2c;                   *)
(*   gzips   the occurrences of 1f 8b 08 in offset order, each with the    *)
(*           byte that follows it;                                         *)
(*   shells  the occurrences of the first LOKI_SHELLCODE_SIZE - 9 bytes of *)
(*           the shellcode in offset order, each with the little-endian    *)
(*           word LOKI_SHELLCODE_SIZE - 5 bytes after its start.           *)
(* Lengths, offsets, sizes and addresses are Wide; page_size, always below *)
(* 2^15 here, is a plain integer.                                          *)

KernelAddress == Wide(32800, 32768)
HighKernelAddress == Wide(65535, 32768)
RamdiskAddress == Wide(33312, 0)
ShellcodeAddress == Wide(33024, 0)
FragmentAddress == Wide(32768, 0)

AHdr(page, kaddr, raddr, dt) ==
    [page_size |-> page, kernel_addr |-> kaddr, ramdisk_addr |-> raddr,
     second_addr |-> Wide(33008, 0), tags_addr |-> Wide(32800, 256),
     dt_size |-> Num(dt), name_len |-> 5, cmdline_len |-> 0]

(* Android headers of images: plain, with a device tree, of an LG device   *)
(* (with and without a device tree), with page size 0, and with a kernel   *)
(* address too high for the jflte default.                                 *)
PlainHeader == AHdr(2048, KernelAddress, RamdiskAddress, 0)

ImageHeaders ==
    { PlainHeader,
      AHdr(2048, KernelAddress, RamdiskAddress, 768),
      AHdr(2048, KernelAddress, Wide(35056, 8192), 768),
      AHdr(2048, KernelAddress, Wide(36592, 8192), 0),
      AHdr(0, KernelAddress, RamdiskAddress, 0),
      AHdr(2048, HighKernelAddress, RamdiskAddress, 768) }

LokiFields(ks, rs, addr) ==
    [magic |-> TRUE, orig_kernel_size |-> Num(ks), orig_ramdisk_size |-> Num(rs),
     ramdisk_addr |-> addr]

NotLoki == [magic |-> FALSE, orig_kernel_size |-> Num(0),
            orig_ramdisk_size |-> Num(0), ramdisk_addr |-> Num(0)]

NewLokiHeaders == { LokiFields(4096, 2048, ShellcodeAddress),
                    LokiFields(4660, 2047, ShellcodeAddress) }

OldLokiHeaders == { LokiFields(0, 0, Num(0)),
                    LokiFields(4660, 2048, Num(0)),
                    LokiFields(0, 0, ShellcodeAddress) }

(* Where "ANDROID!" is: nowhere, at 0, or past Loki's 32 KiB. *)
ImageMagicOffsets == {None, Some(Num(0)), Some(Num(65536))}

ImageLen(amagic) == IF amagic = Some(Num(65536)) THEN Num(69632) ELSE Num(16896)

(* 0x1000 and 0xfffff800 *)
ImageKernelSizes == { Num(4096), Wide(65535, 63488) }

Gz(off, flags) == [off |-> Num(off), flags |-> flags]

ImageGzips ==
    { <<>>,
      << Gz(6144, 8) >>,
      << Gz(4096, 8), Gz(6144, 0), Gz(6148, 8) >>,
      << Gz(6144, 0), Gz(16893, 8) >>,
      << Gz(6144, 4), Gz(8192, 0) >>,
      << Gz(6144, 4) >> }

Sh(off, addr) == [off |-> Num(off), addr |-> addr]

ImageShells ==
    { <<>>,
      << Sh(12288, ShellcodeAddress) >>,
      << Sh(8192, FragmentAddress), Sh(12288, ShellcodeAddress) >>,
      << Sh(8192, FragmentAddress), Sh(16640, ShellcodeAddress) >> }

Image(len, loki, amagic, ahdr, ksize, gzips, shells) ==
    [len |-> len, loki |-> loki, amagic |-> amagic, ahdr |-> ahdr,
     ksize |-> ksize, gzips |-> gzips, shells |-> shells]

(* Files that are no Loki image: empty, too short for a Loki header, or    *)
(* without the magic at 0x400.                                             *)
NotLokiImages ==
    { Image(Num(0), NotLoki, None, PlainHeader, Num(0), <<>>, <<>>),
      Image(Num(1060), NotLoki, None, PlainHeader, Num(0), <<>>, <<>>),
      Image(Num(1060), LokiFields(0, 0, Num(0)), None, PlainHeader, Num(0), <<>>, <<>>) }
    \cup { Image(ImageLen(m), NotLoki, m, PlainHeader, Num(4096), << Gz(6144, 8) >>, <<>>) :
             m \in ImageMagicOffsets }

(* New-style images: every header with every shellcode layout, and the   *)
(* plain one with "ANDROID!" at each place.                                *)
NewStyleImages ==
    { Image(ImageLen(Some(Num(0))), l, Some(Num(0)), h, Num(4096), << Gz(6144, 8) >>, sh) :
        l \in NewLokiHeaders, h \in ImageHeaders, sh \in ImageShells }
    \cup { Image(ImageLen(m), LokiFields(4096, 2048, ShellcodeAddress), m, PlainHeader,
                 Num(4096), << Gz(6144, 8) >>, << Sh(12288, ShellcodeAddress) >>) :
             m \in ImageMagicOffsets }

(* Old-style images: every header with every old Loki header; every kernel *)
(* size with every gzip layout; every shellcode layout; "ANDROID!" at each *)
(* place.                                                                  *)
OldStyleImages ==
    { Image(ImageLen(Some(Num(0))), l, Some(Num(0)), h, Num(4096),
            << Gz(4096, 8), Gz(6144, 0), Gz(6148, 8) >>,
            << Sh(12288, ShellcodeAddress) >>) :
        l \in OldLokiHeaders, h \in ImageHeaders }
    \cup { Image(ImageLen(Some(Num(0))), LokiFields(0, 0, Num(0)), Some(Num(0)), h, ks,
                 gz, <<>>) :
             h \in {PlainHeader, AHdr(2048, KernelAddress, Wide(35056, 8192), 768)},
             ks \in ImageKernelSizes, gz \in ImageGzips }
    \cup { Image(ImageLen(Some(Num(0))), LokiFields(0, 0, ShellcodeAddress), Some(Num(0)),
                 PlainHeader, Num(4096), << Gz(6144, 8) >>, sh) : sh \in ImageShells }
    \cup { Image(ImageLen(m), LokiFields(0, 0, Num(0)), m, PlainHeader, Num(4096),
                 << Gz(6144, 8) >>, <<>>) : m \in ImageMagicOffsets }

(* Old-style images longer than 2^32 bytes: with the gzip magic early in   *)
(* the file, past 2^32, and past 2^32 within the last 0x200 bytes.         *)
LargeImages ==
    { Image(Wide(65537, 0), LokiFields(0, 0, Num(0)), Some(Num(0)), PlainHeader,
            Num(4096), << Gz(6144, 8) >>, <<>>),
      Image(Wide(65537, 0), LokiFields(0, 0, Num(0)), Some(Num(0)), PlainHeader,
            Num(4096), << [off |-> Wide(65536, 6144), flags |-> 8] >>, <<>>),
      Image(Wide(65536, 7000), LokiFields(0, 0, Num(0)), Some(Num(0)), PlainHeader,
            Num(4096), << [off |-> Wide(65536, 6800), flags |-> 8] >>, <<>>) }

Images == NotLokiImages \cup NewStyleImages \cup OldStyleImages \cup LargeImages

(* The stream calls of the reader that can fail, and how: a fault names    *)
(* the call that fails and what File::is_fatal() answers afterwards.       *)
BidSites == {"loki_seek", "loki_read", "android_find"}
ReadSites == BidSites \cup {"kernel_seek", "kernel_read", "gzip_search",
                            "aboot_seek", "shell_search", "shell_seek",
                            "shell_read"}
NoFault == [site |-> "none", fatal |-> FALSE]
FaultsAt(sites) == {NoFault} \cup [site : sites, fatal : BOOLEAN]

LokiErrors == {"LokiHeaderTooSmall", "InvalidLokiMagic", "ShellcodeNotFound",
               "UnexpectedEndOfFile", "InvalidKernelAddress",
               "PageSizeCannotBeZero", "NoRamdiskGzipHeaderFound",
               "RamdiskOffsetGreaterThanAbootOffset",
               "FailedToDetermineRamdiskSize", "UnexpectedFileTruncation"}

(* if (file.is_fatal()) { reader.set_fatal(); } *)
NeverSetFatal(is_fatal) == FALSE
SetFatalIf(is_fatal) == is_fatal

(* Results of the reader's helper functions: ok or not, the error set on   *)
(* the Reader, whether set_fatal() was called, whether the stream reports  *)
(* is_fatal (dead), the stream calls made.                                 *)
Fail(error, io) ==
    [ok |-> FALSE, error |-> error, fatal |-> FALSE, dead |-> FALSE, io |-> io]
IoFail(fault, io) ==
    [ok |-> FALSE, error |-> "io", fatal |-> SetFatalIf(fault.fatal),
     dead |-> fault.fatal, io |-> io]
After(io, res) == [res EXCEPT !.io = @ + io]

(* file_read_fully: the number of bytes a read of n bytes at offset o gets. *)
ReadCount(image, o, n) ==
    IF AtMost(image.len, o) THEN 0
    ELSE IF Below(Minus(image.len, o), Num(n)) THEN Minus(image.len, o).l
    ELSE n

(* file_search(file, start, end = -1, ..., max_matches, cb) on a stream    *)
(* positioned at pos: the offsets handed to the callback, in order: the    *)
(* matches at or after start (at or after the current position when start  *)
(* is negative), at most max_matches of them (all when max_matches is      *)
(* negative).                                                              *)
FileSearch(offsets, start, pos, max_matches) ==
    LET from == IF start.h < 0 THEN pos ELSE start
        found == SelectSeq(offsets, LAMBDA o : AtMost(from, o))
    IN  IF max_matches < 0 \/ Len(found) <= max_matches THEN found
        ELSE SubSeq(found, 1, max_matches)

(* Where find_header may leave the stream: the specification does not say, *)
(* so anywhere from the start of the file to its end; here the start, the  *)
(* end of the Android header, and the end of the file.                     *)
PositionsAfterFindHeader(image) ==
    {Num(0), image.len}
    \cup (IF IsSet(image.amagic)
          THEN {Plus(Val(image.amagic), Num(ANDROID_HEADER_SIZE))} ELSE {})

(* align_page_size<T>(n, page) *)
AlignPageSize(n, page) == (page - Rem(n, page)) % page

(* What find_loki_header makes of the n bytes it read. *)
LokiProbeErrorTooSmall(n, magic) ==
    IF n # LOKI_HEADER_SIZE \/ ~magic THEN Some("LokiHeaderTooSmall") ELSE None
LokiProbeError(n, magic) ==
    IF n # LOKI_HEADER_SIZE THEN Some("LokiHeaderTooSmall")
    ELSE IF ~magic THEN Some("InvalidLokiMagic")
    ELSE None

(* find_loki_header, from the read at 0x400 on *)
FindLokiHeaderRead(image, e) ==
    IF IsSet(e) THEN Fail(Val(e), 2)
    ELSE [ok |-> TRUE, io |-> 2,
          header |-> [orig_kernel_size |-> image.loki.orig_kernel_size,
                      orig_ramdisk_size |-> image.loki.orig_ramdisk_size,
                      ramdisk_addr |-> image.loki.ramdisk_addr],
          offset |-> Num(LOKI_MAGIC_OFFSET)]

(* find_loki_header *)
FindLokiHeader(image, fault) ==
    IF fault.site = "loki_seek" THEN IoFail(fault, 1)
    ELSE IF fault.site = "loki_read" THEN IoFail(fault, 2)
    ELSE FindLokiHeaderRead(image,
             LokiProbeError(ReadCount(image, Num(LOKI_MAGIC_OFFSET), LOKI_HEADER_SIZE),
                            image.loki.magic))

(* android::AndroidFormatReader::find_header, as the specification         *)
(* describes it: HeaderNotFound when no magic is seen, HeaderOutOfBounds   *)
(* when the magic lies beyond max_header_offset.                           *)
AndroidFindHeader(image, max_header_offset, site, fault) ==
    IF fault.site = site THEN IoFail(fault, 1)
    ELSE IF ~IsSet(image.amagic) THEN Fail("HeaderNotFound", 1)
    ELSE IF Below(Num(max_header_offset), Val(image.amagic))
         THEN Fail("HeaderOutOfBounds", 1)
    ELSE [ok |-> TRUE, io |-> 1, header |-> image.ahdr, offset |-> Val(image.amagic)]

(* find_linux_kernel_size *)
FindLinuxKernelSize(image, kernel_offset, fault) ==
    IF fault.site = "kernel_seek" THEN IoFail(fault, 1)
    ELSE IF fault.site = "kernel_read" THEN IoFail(fault, 2)
    ELSE IF ReadCount(image, U32(Plus(Num(kernel_offset), Num(44))), 4) # 4
         THEN Fail("UnexpectedEndOfFile", 2)
    ELSE [ok |-> TRUE, io |-> 2, kernel_size |-> image.ksize]

(* The callback of find_gzip_offset_old: the first match whose flags byte  *)
(* can be read and equals flags.                                           *)
FirstWithFlags(image, found, flags) ==
    LET hits == { i \in 1..Len(found) :
                    /\ ReadCount(image, Plus(found[i], Num(3)), 1) = 1
                    /\ \E g \in 1..Len(image.gzips) :
                          /\ image.gzips[g].off = found[i]
                          /\ image.gzips[g].flags = flags }
    IN  IF hits = {} THEN None
        ELSE Some(found[CHOOSE i \in hits : \A j \in hits : i <= j])

(* Which of the two remembered offsets find_gzip_offset_old returns. *)
PreferredGzipOffsetFlag0First(flag0_offset, flag8_offset) ==
    IF IsSet(flag0_offset) THEN flag0_offset ELSE flag8_offset
PreferredGzipOffset(flag0_offset, flag8_offset) ==
    IF IsSet(flag8_offset) THEN flag8_offset ELSE flag0_offset

(* find_gzip_offset_old *)
FindGzipOffsetOld(image, start_offset, fault) ==
    IF fault.site = "gzip_search" THEN IoFail(fault, 1)
    ELSE LET found == FileSearch([i \in 1..Len(image.gzips) |-> image.gzips[i].off],
                                 start_offset, Num(0), -1)
             flag0_offset == FirstWithFlags(image, found, 0)
             flag8_offset == FirstWithFlags(image, found, 8)
             chosen == PreferredGzipOffset(flag0_offset, flag8_offset)
         IN  IF IsSet(chosen)
             THEN [ok |-> TRUE, io |-> 1, gzip_offset |-> Val(chosen)]
             ELSE Fail("NoRamdiskGzipHeaderFound", 1)

(* find_ramdisk_size_old; a seek to before the start of the file fails.    *)
(* (hdr.page_size, below 2^15 here, is itself as an int32_t.)              *)
FindRamdiskSizeOld(image, h, ramdisk_offset, fault) ==
    LET aboot_size == IF IsLgRamdiskAddress(h.ramdisk_addr)
                      THEN h.page_size ELSE 512
        aboot_offset == Minus(image.len, Num(aboot_size))
    IN  IF fault.site = "aboot_seek" THEN IoFail(fault, 1)
        ELSE IF aboot_offset.h < 0 THEN IoFail(NoFault, 1)
        ELSE IF Below(aboot_offset, ramdisk_offset)
             THEN Fail("RamdiskOffsetGreaterThanAbootOffset", 1)
        ELSE [ok |-> TRUE, io |-> 1, pos |-> aboot_offset,
              ramdisk_size |-> U32(Minus(aboot_offset, ramdisk_offset))]

(* The offset the result callback of find_ramdisk_address leaves: it       *)
(* starts as 0 and every match handed to the callback overwrites it.       *)
ShellcodeOffset(found) == IF found = <<>> THEN Num(0) ELSE found[Len(found)]

(* find_ramdisk_address, called with the stream positioned at pos *)
FindRamdiskAddress(image, h, loki_hdr, pos, fault) ==
    IF loki_hdr.ramdisk_addr # Num(0)
    THEN LET found == FileSearch([i \in 1..Len(image.shells) |-> image.shells[i].off],
                                 Num(-1), pos, 1)
             offset == ShellcodeOffset(found)
             word == Plus(offset, Num(LOKI_SHELLCODE_SIZE - 5))
         IN  IF fault.site = "shell_search" THEN IoFail(fault, 1)
             ELSE IF offset = Num(0) THEN Fail("ShellcodeNotFound", 1)
             ELSE IF fault.site = "shell_seek" THEN IoFail(fault, 2)
             ELSE IF fault.site = "shell_read" THEN IoFail(fault, 3)
             ELSE IF ReadCount(image, word, 4) # 4
                  THEN Fail("UnexpectedEndOfFile", 3)
             ELSE [ok |-> TRUE, io |-> 3,
                   ramdisk_addr |->
                       (CHOOSE sh \in {image.shells[i] : i \in 1..Len(image.shells)} :
                            sh.off = offset).addr]
    ELSE IF Below(Minus(UINT32_MAX, JflteRamdiskOffset), h.kernel_addr)
         THEN Fail("InvalidKernelAddress", 0)
         ELSE [ok |-> TRUE, io |-> 0,
               ramdisk_addr |-> Plus(h.kernel_addr, JflteRamdiskOffset)]

(* The Header that read_header_old / read_header_new fill in. *)
HeaderOut(fields, h, ramdisk_addr, tags_addr) ==
    [set |-> TRUE, supported_fields |-> fields,
     board_name |-> Min(h.name_len, BOOT_NAME_SIZE),
     kernel_cmdline |-> Min(h.cmdline_len, BOOT_ARGS_SIZE),
     page_size |-> h.page_size,
     kernel_address |-> h.kernel_addr,
     ramdisk_address |-> ramdisk_addr,
     secondboot_address |-> h.second_addr,
     kernel_tags_address |-> tags_addr]

(* read_header_old, step by step: after find_ramdisk_address (ra), after  *)
(* find_ramdisk_size_old (rs), after find_gzip_offset_old (g), after       *)
(* find_linux_kernel_size (k).                                             *)
ReadHeaderOldAddress(h, tags_addr, k, g, rs, ra) ==
    IF ~ra.ok THEN ra ELSE
        [ok |-> TRUE, io |-> ra.io,
         header |-> HeaderOut("old", h, ra.ramdisk_addr, tags_addr),
         kernel_offset |-> Num(h.page_size),
         kernel_size |-> k.kernel_size,
         ramdisk_offset |-> g.gzip_offset,
         ramdisk_size |-> rs.ramdisk_size,
         dt_offset |-> Num(0)]

ReadHeaderOldSize(image, h, loki_hdr, fault, tags_addr, k, g, rs) ==
    IF ~rs.ok THEN rs ELSE
        ReadHeaderOldAddress(h, tags_addr, k, g, rs,
            After(rs.io, FindRamdiskAddress(image, h, loki_hdr, rs.pos, fault)))

ReadHeaderOldGzip(image, h, loki_hdr, fault, tags_addr, k, g) ==
    IF ~g.ok THEN g ELSE
        ReadHeaderOldSize(image, h, loki_hdr, fault, tags_addr, k, g,
            After(g.io, FindRamdiskSizeOld(image, h, U32(g.gzip_offset), fault)))

ReadHeaderOldKernel(image, h, loki_hdr, fault, tags_addr, k) ==
    IF ~k.ok THEN k ELSE
        ReadHeaderOldGzip(image, h, loki_hdr, fault, tags_addr, k,
            After(k.io,
                  FindGzipOffsetOld(image,
                      U32(Plus(Plus(Num(h.page_size), k.kernel_size),
                               Num(AlignPageSize(k.kernel_size, h.page_size)))),
                      fault)))

(* read_header_old *)
ReadHeaderOld(image, h, loki_hdr, fault) ==
    IF h.page_size = 0 THEN Fail("PageSizeCannotBeZero", 0)
    ELSE ReadHeaderOldKernel(image, h, loki_hdr, fault,
             U32(Plus(Minus(h.kernel_addr, Num(DEFAULT_KERNEL_OFFSET)),
                      Num(DEFAULT_TAGS_OFFSET))),
             FindLinuxKernelSize(image, h.page_size, fault))

(* The gap read_header_new leaves before the device tree. *)
FakeSizeNotLg(h) == 512
FakeSize(h) == IF IsLgRamdiskAddress(h.ramdisk_addr) THEN h.page_size ELSE 512

(* read_header_new after find_ramdisk_address (ra): the sizes, the header *)
(* and the offsets.                                                        *)
ReadHeaderNewLayout(h, loki_hdr, fake_size, ra) ==
    IF ~ra.ok THEN ra ELSE
    LET kernel_offset == Num(h.page_size)
        pos1 == Plus(kernel_offset, loki_hdr.orig_kernel_size)
        ramdisk_offset == Plus(pos1, Num(AlignPageSize(pos1, h.page_size)))
        pos2 == Plus(ramdisk_offset, loki_hdr.orig_ramdisk_size)
        pos3 == Plus(pos2, Num(AlignPageSize(pos2, h.page_size)))
        dt_offset == IF h.dt_size # Num(0) THEN Plus(pos3, Num(fake_size)) ELSE pos3
    IN  [ok |-> TRUE, io |-> ra.io,
         header |-> HeaderOut("new", h, ra.ramdisk_addr, h.tags_addr),
         kernel_offset |-> kernel_offset,
         kernel_size |-> loki_hdr.orig_kernel_size,
         ramdisk_offset |-> ramdisk_offset,
         ramdisk_size |-> loki_hdr.orig_ramdisk_size,
         dt_offset |-> dt_offset]

(* read_header_new, called with the stream positioned at pos *)
ReadHeaderNew(image, h, loki_hdr, pos, fault) ==
    IF h.page_size = 0 THEN Fail("PageSizeCannotBeZero", 0)
    ELSE ReadHeaderNewLayout(h, loki_hdr, FakeSize(h),
                             FindRamdiskAddress(image, h, loki_hdr, pos, fault))

(* Which reconstruction read_header uses. *)
IsNewStyleAnyField(loki_hdr) ==
    \/ loki_hdr.orig_kernel_size # Num(0)
    \/ loki_hdr.orig_ramdisk_size # Num(0)
    \/ loki_hdr.ramdisk_addr # Num(0)
IsNewStyle(loki_hdr) ==
    /\ loki_hdr.orig_kernel_size # Num(0)
    /\ loki_hdr.orig_ramdisk_size # Num(0)
    /\ loki_hdr.ramdisk_addr # Num(0)

SegmentReaderEntry(type, offset, size) ==
    [type |-> type, offset |-> offset, size |-> size, can_truncate |-> FALSE]

(* The entries read_header hands to the segment engine. *)
ReaderEntriesWithoutDt(h, res) ==
    << SegmentReaderEntry(ENTRY_TYPE_KERNEL, res.kernel_offset, res.kernel_size),
       SegmentReaderEntry(ENTRY_TYPE_RAMDISK, res.ramdisk_offset, res.ramdisk_size) >>
ReaderEntries(h, res) ==
    << SegmentReaderEntry(ENTRY_TYPE_KERNEL, res.kernel_offset, res.kernel_size),
       SegmentReaderEntry(ENTRY_TYPE_RAMDISK, res.ramdisk_offset, res.ramdisk_size) >>
    \o (IF Below(Num(0), h.dt_size) /\ res.dt_offset # Num(0)
        THEN << SegmentReaderEntry(ENTRY_TYPE_DEVICE_TREE, res.dt_offset, h.dt_size) >>
        ELSE <<>>)

(* The bits a matched magic adds to a bid. *)
MagicBytes(size) == size
MagicBits(size) == size * 8

(* The bid that cannot be won. *)
CannotWinIfHigher(best_bid) == best_bid > (BOOT_MAGIC_SIZE + LOKI_MAGIC_SIZE) * 8
CannotWin(best_bid) == best_bid >= (BOOT_MAGIC_SIZE + LOKI_MAGIC_SIZE) * 8

(* bid after find_header (a), r1 holding the Loki header *)
LokiBidFound(r1, a) ==
    IF ~a.ok
    THEN [ret |-> IF a.error \in {"HeaderNotFound", "HeaderOutOfBounds"}
                  THEN 0 ELSE -1,
          rd |-> r1, err |-> Some(a.error), fatal |-> a.fatal, dead |-> a.dead,
          io |-> a.io]
    ELSE [ret |-> MagicBits(LOKI_MAGIC_SIZE) + MagicBits(BOOT_MAGIC_SIZE),
          rd |-> [r1 EXCEPT !.hdr = a.header, !.header_offset = Some(a.offset)],
          err |-> None, fatal |-> FALSE, dead |-> FALSE, io |-> a.io]

(* bid after find_loki_header (l) *)
LokiBidProbed(image, r, l, fault) ==
    IF ~l.ok
    THEN [ret |-> IF l.error \in LokiErrors THEN 0 ELSE -1,
          rd |-> r, err |-> Some(l.error), fatal |-> l.fatal, dead |-> l.dead,
          io |-> l.io]
    ELSE LokiBidFound([r EXCEPT !.loki_hdr = l.header, !.loki_offset = Some(l.offset)],
                      After(l.io, AndroidFindHeader(image, LOKI_MAX_HEADER_OFFSET,
                                                    "android_find", fault)))

(* LokiFormatReader::bid on a reader whose cached state is r: what it      *)
(* returns, the cached state it leaves, the error it sets if any.          *)
LokiBid(image, r, best_bid, fault) ==
    IF CannotWin(best_bid)
    THEN [ret |-> -2, rd |-> r, err |-> None, fatal |-> FALSE, dead |-> FALSE,
          io |-> 0]
    ELSE LokiBidProbed(image, r, FindLokiHeader(image, fault), fault)

(* read_header with both headers in r2, io stream calls made so far *)
LokiReadHeaderStyled(image, r2, io, pos, fault) ==
    [res |-> After(io,
                   IF IsNewStyle(r2.loki_hdr)
                   THEN ReadHeaderNew(image, r2.hdr, r2.loki_hdr, pos, fault)
                   ELSE ReadHeaderOld(image, r2.hdr, r2.loki_hdr, fault)),
     rd |-> r2]

(* read_header after the Android header was taken from the cache or found (a) *)
LokiReadHeaderFound(image, r1, a, pos, fault) ==
    IF ~a.ok THEN [res |-> a, rd |-> r1]
    ELSE LokiReadHeaderStyled(image,
             [r1 EXCEPT !.hdr = a.header, !.header_offset = Some(a.offset)],
             a.io, pos, fault)

(* read_header after the Loki header was taken from the cache or found (l) *)
LokiReadHeaderProbed(image, r, l, pos, fault) ==
    IF ~l.ok THEN [res |-> l, rd |-> r]
    ELSE LokiReadHeaderFound(image,
             [r EXCEPT !.loki_hdr = l.header, !.loki_offset = Some(l.offset)],
             IF IsSet(r.header_offset)
             THEN [ok |-> TRUE, io |-> l.io, header |-> r.hdr,
                   offset |-> Val(r.header_offset)]
             ELSE After(l.io, AndroidFindHeader(image, MAX_HEADER_OFFSET,
                                                "android_find", fault)),
             pos, fault)

(* LokiFormatReader::read_header up to the call of _seg.set_entries; pos  *)
(* is where find_header, called here or by an earlier bid, left the stream. *)
LokiReadHeader(image, r, pos, fault) ==
    LokiReadHeaderProbed(image, r,
        IF IsSet(r.loki_offset)
        THEN [ok |-> TRUE, io |-> 0, header |-> r.loki_hdr,
              offset |-> Val(r.loki_offset)]
        ELSE FindLokiHeader(image, fault),
        pos, fault)

(* The Reader after a driver call that set the error err (if any) and      *)
(* called set_fatal() or not.                                              *)
ReaderAfter(rdr, err, fatal, state) ==
    [state |-> IF fatal THEN "Fatal" ELSE state,
     error |-> IF IsSet(err) THEN Val(err) ELSE rdr.error,
     fatal |-> fatal]

(* bid(file, best_bid), called on the driver. *)
Bid(best_bid, fault) ==
    /\ reader.state = "New"
    /\ \E b \in {LokiBid(img, rd, best_bid, fault)} :
           /\ rd' = b.rd
           /\ reader' = ReaderAfter(reader, b.err, b.fatal, "New")
           /\ rret' = [op |-> "bid", best_bid |-> best_bid, ret |-> b.ret,
                       err |-> b.err, io |-> b.io, before |-> rd,
                       stream_fatal |-> b.dead]
    /\ UNCHANGED <<img, rseg, out_header>>
    /\ UNCHANGED wvars

(* read_header(file, header), called on the driver. *)
ReadHeader(pos, fault) ==
    /\ reader.state = "New"
    /\ \E run \in {LokiReadHeader(img, rd, pos, fault)} :
       LET res == run.res
       IN  /\ rd' = run.rd
           /\ IF res.ok /\ SegSetEntriesOk(ReaderEntries(run.rd.hdr, res))
              THEN /\ rseg' = Some(ReaderEntries(run.rd.hdr, res))
                   /\ out_header' = res.header
                   /\ reader' = ReaderAfter(reader, None, FALSE, "HeaderRead")
                   /\ rret' = [op |-> "read_header", ok |-> TRUE, err |-> None,
                               io |-> res.io, before |-> rd,
                               stream_fatal |-> FALSE]
              ELSE /\ rseg' = rseg
                   /\ out_header' = IF res.ok THEN res.header ELSE out_header
                   /\ reader' = ReaderAfter(reader,
                                    Some(IF res.ok THEN "set_entries" ELSE res.error),
                                    ~res.ok /\ res.fatal, "New")
                   /\ rret' = [op |-> "read_header", ok |-> FALSE,
                               err |-> Some(IF res.ok THEN "set_entries" ELSE res.error),
                               io |-> res.io, before |-> rd,
                               stream_fatal |-> ~res.ok /\ res.dead]
    /\ UNCHANGED img
    /\ UNCHANGED wvars

(* The Android driver's bid after find_header (a) *)
AndroidBidFound(r, a) ==
    IF ~a.ok
    THEN [ret |-> IF a.error \in {"HeaderNotFound", "HeaderOutOfBounds"}
                  THEN 0 ELSE -1,
          rd |-> r, err |-> Some(a.error), fatal |-> a.fatal, dead |-> a.dead,
          io |-> a.io]
    ELSE [ret |-> BOOT_MAGIC_SIZE * 8, rd |-> r, err |-> None, fatal |-> FALSE,
          dead |-> FALSE, io |-> a.io]

(* The Android driver's bid, as the specification describes it: -2 when   *)
(* it cannot win, the bits of "ANDROID!" when find_header finds the magic  *)
(* within the Android cap, 0 when it does not, -1 on any other error; r,   *)
(* the Loki reader's cached state, is left as it is.                       *)
AndroidBid(image, r, best_bid, fault) ==
    IF best_bid >= BOOT_MAGIC_SIZE * 8
    THEN [ret |-> -2, rd |-> r, err |-> None, fatal |-> FALSE, dead |-> FALSE,
          io |-> 0]
    ELSE AndroidBidFound(r, AndroidFindHeader(image, MAX_HEADER_OFFSET,
                                              "android_bid", fault))

Drivers == {"android", "loki"}
DriverOrders == { <<"android", "loki">>, <<"loki", "android">> }

DriverBid(driver, image, r, best_bid, fault) ==
    IF driver = "loki"
    THEN LokiBid(image, r, best_bid, fault)
    ELSE AndroidBid(image, r, best_bid, fault)

(* The Reader's bidding over the enabled drivers, in registration order,   *)
(* as the specification describes it: a bid of -1 aborts; the running      *)
(* maximum and its driver are kept, a tie going to the driver registered   *)
(* first; no bid of at least one bit is UnknownFormat.                     *)
Detect(order, fault) ==
    /\ reader.state = "New"
    /\ \E b1 \in {DriverBid(order[1], img, rd, 0, fault)} :
       \E best1 \in {IF b1.ret > 0 THEN b1.ret ELSE 0} :
       \E b2 \in {DriverBid(order[2], img, b1.rd, best1, fault)} :
       \E winner \in {IF b2.ret > best1 THEN order[2]
                      ELSE IF b1.ret > 0 THEN order[1] ELSE "none"} :
           IF b1.ret = -1
           THEN /\ rd' = b1.rd
                /\ reader' = ReaderAfter(reader, b1.err, b1.fatal, "New")
                /\ rret' = [op |-> "detect", order |-> order,
                            bids |-> [d \in Drivers |->
                                        IF d = order[1] THEN Some(b1.ret) ELSE None],
                            winner |-> "none", ok |-> FALSE,
                            stream_fatal |-> b1.dead]
           ELSE IF b2.ret = -1
           THEN /\ rd' = b2.rd
                /\ reader' = ReaderAfter(reader, b2.err, b2.fatal, "New")
                /\ rret' = [op |-> "detect", order |-> order,
                            bids |-> [d \in Drivers |->
                                        IF d = order[1] THEN Some(b1.ret)
                                        ELSE Some(b2.ret)],
                            winner |-> "none", ok |-> FALSE,
                            stream_fatal |-> b2.dead]
           ELSE /\ rd' = b2.rd
                /\ reader' = ReaderAfter(reader,
                                 IF winner = "none" THEN Some("UnknownFormat")
                                 ELSE IF IsSet(b2.err) THEN b2.err ELSE b1.err,
                                 FALSE, "New")
                /\ rret' = [op |-> "detect", order |-> order,
                            bids |-> [d \in Drivers |->
                                        IF d = order[1] THEN Some(b1.ret)
                                        ELSE Some(b2.ret)],
                            winner |-> winner, ok |-> winner # "none",
                            stream_fatal |-> FALSE]
    /\ UNCHANGED <<img, rseg, out_header>>
    /\ UNCHANGED wvars

(* The best bids a driver is asked to beat. *)
BestBids == {0, 64, 95, 96, 128}

(* A Loki reader on an image: bids, detection, read_header. *)
LokiInit ==
    /\ WriterConstructed({FALSE}, {[size |-> 0, type |-> "invalid"]})
    /\ ReaderInit(Images)

LokiNext ==
    \/ \E best_bid \in BestBids, fault \in FaultsAt(BidSites) : Bid(best_bid, fault)
    \/ \E pos \in PositionsAfterFindHeader(img), fault \in FaultsAt(ReadSites) :
          ReadHeader(pos, fault)
    \/ \E order \in DriverOrders, fault \in FaultsAt(BidSites \cup {"android_bid"}) :
          Detect(order, fault)

LokiSpec == LokiInit /\ [][LokiNext]_vars

----------------------------------------------------------------------------
(* What the claims about the Loki reader speak of. *)

(* "LOKI" is at 0x400 / "ANDROID!" is within the cap. *)
LokiMagicPresent ==
    /\ AtMost(Num(LOKI_MAGIC_OFFSET + LOKI_HEADER_SIZE), img.len)
    /\ img.loki.magic
AndroidMagicWithin(cap) == IsSet(img.amagic) /\ AtMost(Val(img.amagic), Num(cap))

(* C7: bid returns -2, touching neither the stream nor the cached headers, *)
(* when best_bid >= 8 * (8 + 4); otherwise 8 * (8 + 4) when both magics    *)
(* are found, 0 when one is absent (a Loki error, HeaderNotFound or        *)
(* HeaderOutOfBounds), and -1 on any other error; never anything else.     *)
C7_BidResults ==
    rret.op = "bid" =>
        /\ rret.ret \in {-2, 96, 0, -1}
        /\ rret.ret = -2 <=> rret.best_bid >= 96
        /\ rret.ret = -2 => rret.io = 0 /\ rd = rret.before /\ rret.err = None
        /\ rret.ret = 96 <=> rret.best_bid < 96 /\ rret.err = None
        /\ rret.ret = 96 =>
              /\ LokiMagicPresent
              /\ AndroidMagicWithin(LOKI_MAX_HEADER_OFFSET)
              /\ IsSet(rd.loki_offset) /\ IsSet(rd.header_offset)
        /\ rret.ret = 0 <=>
              /\ IsSet(rret.err)
              /\ Val(rret.err) \in LokiErrors \cup {"HeaderNotFound", "HeaderOutOfBounds"}
        /\ rret.ret = 0 =>
              ~(LokiMagicPresent /\ AndroidMagicWithin(LOKI_MAX_HEADER_OFFSET))
        /\ rret.ret = -1 <=> rret.err = Some("io")

(* A bid that could not be won, on a reader that had both headers cached. *)
C7_Witness ==
    /\ rret.op = "bid"
    /\ rret.ret = -2
    /\ IsSet(rd.loki_offset)
    /\ IsSet(rd.header_offset)

(* A detection over a file with both magics in which no stream call failed. *)
DetectedBoth ==
    /\ rret.op = "detect"
    /\ LokiMagicPresent
    /\ AndroidMagicWithin(LOKI_MAX_HEADER_OFFSET)
    /\ \A d \in Drivers : rret.bids[d] \notin {None, Some(-1)}

(* C8, as stated: on a file with "ANDROID!" within 32 KiB and "LOKI" at    *)
(* 0x400 the Loki driver bids 128 bits against the Android driver's 64,    *)
(* and wins.                                                               *)
C8_LokiBids128 ==
    DetectedBoth /\ rret.order[1] = "android" =>
        /\ rret.bids["loki"] = Some(128)
        /\ rret.bids["android"] = Some(64)
        /\ rret.winner = "loki"

(* C8, amended: on such a file, when no stream call fails, the Loki driver *)
(* bids 8 * (8 + 4) = 96 bits; the Android driver bids 64 bits when asked  *)
(* first and -2 when asked after Loki; the Loki driver wins either way.    *)
C8_LokiBids96 ==
    DetectedBoth =>
        /\ rret.bids["loki"] = Some(96)
        /\ rret.bids["android"] =
              IF rret.order[1] = "android" THEN Some(64) ELSE Some(-2)
        /\ rret.winner = "loki"

C8_Witness ==
    /\ DetectedBoth
    /\ rret.order[1] = "android"
    /\ rret.winner = "loki"

(* The installed entries of a successful read_header. *)
HeaderWasRead == rret.op = "read_header" /\ rret.ok
Installed == Val(rseg)
TypesInstalled == [i \in 1..Len(Installed) |-> Installed[i].type]
NewStyleImage ==
    /\ img.loki.orig_kernel_size # Num(0)
    /\ img.loki.orig_ramdisk_size # Num(0)
    /\ img.loki.ramdisk_addr # Num(0)

(* C9: after a successful read_header the segment list is kernel, ramdisk  *)
(* and then a device tree iff the image is new-style with dt_size > 0;     *)
(* never a secondboot entry, never a device tree for an old-style image.   *)
C9_SegmentList ==
    HeaderWasRead =>
        /\ IsSet(rseg)
        /\ TypesInstalled =
              IF NewStyleImage /\ img.ahdr.dt_size # Num(0)
              THEN <<ENTRY_TYPE_KERNEL, ENTRY_TYPE_RAMDISK, ENTRY_TYPE_DEVICE_TREE>>
              ELSE <<ENTRY_TYPE_KERNEL, ENTRY_TYPE_RAMDISK>>

(* An old-style image with dt_size > 0 was read. *)
C9_Witness ==
    /\ HeaderWasRead
    /\ ~NewStyleImage
    /\ img.ahdr.dt_size # Num(0)
    /\ Len(Installed) = 2

(* C10, as stated: every installed entry's offset is a multiple of the     *)
(* header's page_size.                                                     *)
C10_OffsetsAligned ==
    HeaderWasRead =>
        \A i \in 1..Len(Installed) : Rem(Installed[i].offset, img.ahdr.page_size) = 0

(* C10, amended: the kernel's offset is page_size; a new-style image's     *)
(* ramdisk offset is a multiple of page_size and an old-style image's is   *)
(* the offset of a gzip magic, wherever that is; the device tree's offset  *)
(* lies page_size (LG ramdisk address) or 0x200 bytes (otherwise) past a   *)
(* multiple of page_size.                                                  *)
C10_OffsetsReconstructed ==
    HeaderWasRead =>
        LET page == img.ahdr.page_size
            gap == IF img.ahdr.ramdisk_addr \in {Wide(35056, 8192), Wide(36592, 8192)}
                   THEN page ELSE 512
        IN  /\ Installed[1].offset = Num(page)
            /\ NewStyleImage => Rem(Installed[2].offset, page) = 0
            /\ ~NewStyleImage =>
                  \E g \in 1..Len(img.gzips) : img.gzips[g].off = Installed[2].offset
            /\ Len(Installed) = 3 =>
                  /\ AtMost(Num(gap), Installed[3].offset)
                  /\ Rem(Minus(Installed[3].offset, Num(gap)), page) = 0

(* A device tree of an LG image was installed. *)
C10_Witness ==
    /\ HeaderWasRead
    /\ Len(Installed) = 3
    /\ img.ahdr.ramdisk_addr = Wide(35056, 8192)

(* C11: when loki.ramdisk_addr != 0 and the shellcode pattern occurs more   *)
(* than once, the ramdisk address a successful read_header reports is the  *)
(* word after the last occurrence in the file.                             *)
C11_LastShellcodeWins ==
    HeaderWasRead /\ img.loki.ramdisk_addr # Num(0) /\ Len(img.shells) > 1 =>
        out_header.ramdisk_address = img.shells[Len(img.shells)].addr

(* The occurrences of 1f 8b 08 at or after the scan's start that are       *)
(* followed in the file by the given flags byte.                            *)
GzipScanStart ==
    U32(Plus(Plus(Num(img.ahdr.page_size), img.ksize),
             Num((img.ahdr.page_size - Rem(img.ksize, img.ahdr.page_size))
                 % img.ahdr.page_size)))
GzipOccurrences(flags) ==
    { g \in 1..Len(img.gzips) :
        /\ AtMost(GzipScanStart, img.gzips[g].off)
        /\ Below(Plus(img.gzips[g].off, Num(3)), img.len)
        /\ img.gzips[g].flags = flags }
FirstGzip(flags) ==
    img.gzips[CHOOSE g \in GzipOccurrences(flags) :
                  \A o \in GzipOccurrences(flags) : g <= o].off

(* C12: find_gzip_offset_old returns the first occurrence with flags 0x08  *)
(* if there is one, else the first with flags 0x00, else it fails with     *)
(* NoRamdiskGzipHeaderFound; other flags bytes are ignored.                *)
C12_GzipOffset ==
    /\ HeaderWasRead /\ ~NewStyleImage =>
          /\ GzipOccurrences(8) \cup GzipOccurrences(0) # {}
          /\ Installed[2].offset =
                IF GzipOccurrences(8) # {} THEN FirstGzip(8) ELSE FirstGzip(0)
    /\ rret.op = "read_header" /\ rret.err = Some("NoRamdiskGzipHeaderFound") =>
          GzipOccurrences(8) \cup GzipOccurrences(0) = {}

(* A flags 0x00 occurrence came first and the later flags 0x08 one was chosen. *)
C12_Witness ==
    /\ HeaderWasRead /\ ~NewStyleImage
    /\ GzipOccurrences(8) # {} /\ GzipOccurrences(0) # {}
    /\ Below(FirstGzip(0), FirstGzip(8))
    /\ Installed[2].offset = FirstGzip(8)

(* file_end - (page_size for an LG ramdisk address, else 0x200) *)
AbootOffset ==
    Minus(img.len,
          Num(IF img.ahdr.ramdisk_addr \in {Wide(35056, 8192), Wide(36592, 8192)}
              THEN img.ahdr.page_size ELSE 512))

(* C13: for an old-style image a successful read_header reports the        *)
(* ramdisk size aboot_offset - ramdisk_offset, with ramdisk_offset the     *)
(* ramdisk entry's offset and never beyond aboot_offset, whatever the file *)
(* length and the gzip offset, also beyond 32 bits.                        *)
C13_RamdiskSize ==
    HeaderWasRead /\ ~NewStyleImage =>
        /\ AtMost(Installed[2].offset, AbootOffset)
        /\ Installed[2].size = Minus(AbootOffset, Installed[2].offset)

(* C14: read_header on a reader that has found no header yet, on an image *)
(* of at least 0x450 bytes without "LOKI" at 0x400, fails with             *)
(* InvalidLokiMagic before the Android header is looked for, installs no   *)
(* segment list and leaves the caller's Header as it was (no stream call   *)
(* failing).                                                               *)
C14_ForcedReadInvalidMagic ==
    /\ rret.op = "read_header"
    /\ rret.before = RdInit
    /\ AtMost(Num(LOKI_MAGIC_OFFSET + LOKI_HEADER_SIZE), img.len)
    /\ ~img.loki.magic
    /\ rret.err # Some("io")
    =>  /\ ~rret.ok
        /\ rret.err = Some("InvalidLokiMagic")
        /\ reader.error = "InvalidLokiMagic"
        /\ rret.io = 2
        /\ rd = RdInit
        /\ rseg = None
        /\ out_header = HeaderUnset

(* A forced read_header failed so on an image that has "ANDROID!" at 0. *)
C14_Witness ==
    /\ rret.op = "read_header"
    /\ rret.before = RdInit
    /\ ~img.loki.magic
    /\ img.amagic = Some(Num(0))
    /\ rret.err = Some("InvalidLokiMagic")

(* C15: when a stream call fails inside a Loki reader operation and the    *)
(* stream reports is_fatal, the reader is fatal when the operation         *)
(* returns; a bid returns -1 then, never 0.                                *)
C15_FatalMarksReader ==
    rret.op \in {"bid", "read_header", "detect"} /\ rret.stream_fatal =>
        /\ reader.fatal
        /\ reader.state = "Fatal"
        /\ rret.op = "bid" => rret.ret = -1
        /\ rret.op = "read_header" => ~rret.ok

(* The read at 0x400 failed fatally during a bid. *)
C15_Witness ==
    /\ rret.op = "bid"
    /\ rret.stream_fatal
    /\ rret.io = 2
    /\ rret.ret = -1
    /\ reader.fatal

(* C16: when finish_entry returns OK for a segment with zero payload      *)
(* bytes, the stream offset (where the next segment or the trailer starts) *)
(* is page_size beyond the offset at which the segment started.            *)
C16_EmptySegmentTakesPage ==
    ret.op = "finish_entry" /\ ret.code = "OK" /\ ret.arg.count = 0 =>
        file.pos = ret.arg.start + hdr.page_size

(* C16, as the writer behaves: when finish_entry returns OK the stream     *)
(* offset is the segment's start plus its payload rounded up to a multiple *)
(* of page_size; a segment with zero payload bytes takes no page.          *)
C16_SegmentTakesWholePages ==
    ret.op = "finish_entry" /\ ret.code = "OK" =>
        /\ file.pos = ret.arg.start + RoundUp(ret.arg.count, hdr.page_size)
        /\ ret.arg.count = 0 => file.pos = ret.arg.start

(* An empty secondboot or device-tree slot was finished. *)
C16_Witness ==
    /\ ret.op = "finish_entry"
    /\ ret.code = "OK"
    /\ ret.arg.count = 0
    /\ ret.arg.type \in {ENTRY_TYPE_SECONDBOOT, ENTRY_TYPE_DEVICE_TREE}
    /\ hdr.page_size = 2048
    /\ file.pos = ret.arg.start
    /\ PayloadSize(ENTRY_TYPE_KERNEL) > 0

(* C18: a close while the cursor is not at the end of the segment list     *)
(* writes nothing to the stream, leaves the SHA-1 context and the header   *)
(* as they are and, its seek not failing, returns OK having remembered the *)
(* stream's current offset as the file size.                               *)
C18_CloseBeforeEnd ==
    [][ret'.op = "close" /\ seg.cur # SegEnd(seg) =>
          /\ file'.data = file.data
          /\ sha_ctx' = sha_ctx
          /\ hdr' = hdr
          /\ seg' = seg
          /\ hist'.hdr_writes = hist.hdr_writes
          /\ ret'.err # "seek" =>
                /\ ret'.code = "OK"
                /\ file_size' = Some(file.pos)
                /\ file'.pos = file.pos]_vars

(* close returned OK with the kernel finished and later segments not. *)
C18_Witness ==
    /\ ret.op = "close"
    /\ ret.code = "OK"
    /\ seg.cur > 1
    /\ seg.cur < SegEnd(seg)
    /\ file_size = Some(file.pos)
    /\ sha_ctx.finals = 0
    /\ ~HasStoredHeader
    /\ hist.hdr_writes = {}

(* C20: a write_data that returns OK feeds the SHA-1 exactly the bytes the *)
(* engine reports written, also when they are fewer than the buffer; one   *)
(* that fails feeds nothing.                                               *)
C20_HashFeedsBytesWritten ==
    [][ret'.op = "write_data" =>
          IF ret'.code = "OK"
          THEN sha_ctx'.msg = Cat(sha_ctx.msg, Take(ret'.arg[1], ret'.arg[2]))
          ELSE sha_ctx' = sha_ctx]_vars

(* x rounded up to a multiple of page. *)
RoundUpWide(x, page) == Plus(x, Num((page - Rem(x, page)) % page))

(* The stream calls read_header makes to find the two headers it has not   *)
(* cached.                                                                 *)
HeaderProbes ==
    (IF IsSet(rret.before.loki_offset) THEN 0 ELSE 2)
    + (IF IsSet(rret.before.header_offset) THEN 0 ELSE 1)

(* C17: for a new-style image a successful read_header installs the kernel *)
(* at page_size with size orig_kernel_size, the ramdisk at page_size +      *)
(* orig_kernel_size rounded up with size orig_ramdisk_size and, when        *)
(* hdr.dt_size != 0, the device tree at ramdisk offset + orig_ramdisk_size  *)
(* rounded up + gap (page_size for hdr.ramdisk_addr 0x88f02000 or           *)
(* 0x8ef02000, else 0x200); with page_size 0 read_header fails with         *)
(* PageSizeCannotBeZero having made no stream call beyond finding the       *)
(* headers.                                                                 *)
C17_NewStyleLayout ==
    /\ HeaderWasRead /\ NewStyleImage =>
          LET page == img.ahdr.page_size
              gap == IF img.ahdr.ramdisk_addr \in {Wide(35056, 8192), Wide(36592, 8192)}
                     THEN page ELSE 512
              ramdisk_offset ==
                  Plus(Num(page), RoundUpWide(img.loki.orig_kernel_size, page))
          IN  /\ page # 0
              /\ Installed[1].size = img.loki.orig_kernel_size
              /\ Installed[2].size = img.loki.orig_ramdisk_size
              /\ Installed[1].offset = Num(page)
              /\ Installed[2].offset = ramdisk_offset
              /\ img.ahdr.dt_size # Num(0) =>
                    /\ Len(Installed) = 3
                    /\ Installed[3].offset =
                          Plus(Plus(ramdisk_offset,
                                    RoundUpWide(img.loki.orig_ramdisk_size, page)),
                               Num(gap))
    /\ /\ rret.op = "read_header"
       /\ NewStyleImage
       /\ IsSet(rd.header_offset)
       /\ img.ahdr.page_size = 0
       =>  /\ ~rret.ok
           /\ rret.err = Some("PageSizeCannotBeZero")
           /\ rret.io = HeaderProbes

(* A device tree was installed for a new-style image whose sizes are not   *)
(* multiples of the page size and whose ramdisk address is not LG's.       *)
C17_Witness ==
    /\ HeaderWasRead
    /\ NewStyleImage
    /\ Len(Installed) = 3
    /\ img.ahdr.ramdisk_addr = RamdiskAddress
    /\ Rem(img.loki.orig_kernel_size, img.ahdr.page_size) # 0
    /\ Rem(img.loki.orig_ramdisk_size, img.ahdr.page_size) # 0
    /\ Installed[3].offset = Wide(0, 2048 + 6144 + 2048 + 512)

(* C19: read_header, with or without a prior bid, takes an Android header  *)
(* only from an offset of at most 32 KiB: an image whose "ANDROID!" lies    *)
(* beyond is never read successfully.                                      *)
C19_HeaderWithinLokiCap ==
    rret.op = "read_header" =>
        /\ IsSet(rd.header_offset) =>
              AtMost(Val(rd.header_offset), Num(LOKI_MAX_HEADER_OFFSET))
        /\ rret.ok => AndroidMagicWithin(LOKI_MAX_HEADER_OFFSET)

(* C21: in every segment list a successful read_header installs, the      *)
(* kernel ends at or before the ramdisk's offset and, when a device tree   *)
(* is installed, the ramdisk ends at or before the device tree's offset.   *)
C21_SegmentsDoNotOverlap ==
    HeaderWasRead =>
        /\ AtMost(Plus(Installed[1].offset, Installed[1].size), Installed[2].offset)
        /\ Len(Installed) = 3 =>
              AtMost(Plus(Installed[2].offset, Installed[2].size), Installed[3].offset)

====
